---- MODULE Spec2Model ----
(***************************************************************************)
(* Model of downloads-generation/data_curated/curate.py: four loaders that *)
(* turn raw tables into standardized measurement records, and run(), which *)
(* calls them file by file, cross-filters Kim2014 against dfs[0],          *)
(* concatenates, deduplicates, sorts, drops null rows and writes the CSV.  *)
(*                                                                         *)
(* Data frames are sequences of records (row order is index order).        *)
(* Text cells are strings; a missing cell (pandas NaN) is the value NaN.   *)
(* Floats are carried as their decimal text ("500.0"), since the program   *)
(* only copies them and compares them for equality.  Probabilities are in  *)
(* hundredths (0.99 is 99), since the program compares them with >=.       *)
(***************************************************************************)
EXTENDS Integers, Sequences, FiniteSets, TLC

VARIABLES args, pc, fileno, dfs, df, out_csv

vars == <<args, pc, fileno, dfs, df, out_csv>>

(***************************************************************************)
(* Bounds of the model.                                                    *)
(***************************************************************************)
\* Lines of input in one run, over all input files together: each is a raw
\* row of a file, or a file that cannot be read.
MaxRows == 2

(***************************************************************************)
(* Strings, as Python and pandas treat them.                               *)
(***************************************************************************)
NaN == "NaN"

isnull(x) == x = NaN

\* The printable ASCII characters in code point order: " " (32) to "_" (95),
\* and "a" (97) to "~" (126).
ASCIILow == " !\"#$%&'()*+,-./0123456789:;<=>?@ABCDEFGHIJKLMNOPQRSTUVWXYZ[\\]^_"
ASCIIHigh == "abcdefghijklmnopqrstuvwxyz{|}~"

Char(s, i) == SubSeq(s, i, i)

\* Python's ord(c) for a one-character str.
ord(c) ==
    IF \E i \in 1..Len(ASCIILow) : Char(ASCIILow, i) = c
    THEN 31 + (CHOOSE i \in 1..Len(ASCIILow) : Char(ASCIILow, i) = c)
    ELSE 96 + (CHOOSE i \in 1..Len(ASCIIHigh) : Char(ASCIIHigh, i) = c)

\* s < t for two str values: Python compares code point by code point.
RECURSIVE StrLess(_, _)
StrLess(s, t) ==
    IF Len(t) = 0 THEN FALSE
    ELSE IF Len(s) = 0 THEN TRUE
    ELSE IF Char(s, 1) = Char(t, 1)
         THEN StrLess(SubSeq(s, 2, Len(s)), SubSeq(t, 2, Len(t)))
         ELSE ord(Char(s, 1)) < ord(Char(t, 1))

\* Series.str.contains(sub) for a pattern without regex metacharacters.
Contains(s, sub) ==
    \E k \in 1..(Len(s) - Len(sub) + 1) : SubSeq(s, k, k + Len(sub) - 1) = sub

\* The whitespace str.strip() removes; of it, the cells here have only " ".
Whitespace == {" "}

\* str.strip()
RECURSIVE Strip(_)
Strip(s) ==
    IF Len(s) = 0 THEN s
    ELSE IF Char(s, 1) \in Whitespace THEN Strip(SubSeq(s, 2, Len(s)))
    ELSE IF Char(s, Len(s)) \in Whitespace THEN Strip(SubSeq(s, 1, Len(s) - 1))
    ELSE s

Lower == "abcdefghijklmnopqrstuvwxyz"
UpperCase == "ABCDEFGHIJKLMNOPQRSTUVWXYZ"

\* str.upper()
RECURSIVE Upper(_)
Upper(s) ==
    IF Len(s) = 0 THEN s
    ELSE LET c == Char(s, 1)
             u == IF \E i \in 1..Len(Lower) : Char(Lower, i) = c
                  THEN Char(UpperCase, CHOOSE i \in 1..Len(Lower) : Char(Lower, i) = c)
                  ELSE c
         IN  u \o Upper(SubSeq(s, 2, Len(s)))

\* s.split(sep)[-1] for a one-character sep: what follows the last sep.
RECURSIVE SplitLast(_, _)
SplitLast(s, sep) ==
    IF ~ Contains(s, sep) THEN s
    ELSE LET k == CHOOSE j \in 1..Len(s) : Char(s, j) = sep
         IN  SplitLast(SubSeq(s, k + 1, Len(s)), sep)

\* s.replace(c, "") for a one-character c.
RECURSIVE Remove(_, _)
Remove(s, c) ==
    IF Len(s) = 0 THEN s
    ELSE (IF Char(s, 1) = c THEN "" ELSE Char(s, 1)) \o Remove(SubSeq(s, 2, Len(s)), c)

AminoAcids == {"A", "C", "D", "E", "F", "G", "H", "I", "K", "L",
               "M", "N", "P", "Q", "R", "S", "T", "V", "W", "Y"}

\* Series.str.match("^[ACDEFGHIKLMNPQRSTVWY]+$")
MatchesPeptide(s) ==
    /\ Len(s) >= 1
    /\ \A i \in 1..Len(s) : Char(s, i) \in AminoAcids

(***************************************************************************)
(* Data frame helpers.                                                     *)
(***************************************************************************)
\* frame.loc[mask], frame.ix[mask]: the rows whose mask is True, in index
\* order.  mask is a sequence of booleans as long as the frame.
Loc(frame, mask) ==
    LET RECURSIVE Pick(_)
        Pick(k) == IF k > Len(frame) THEN <<>>
                   ELSE (IF mask[k] THEN <<frame[k]>> ELSE <<>>) \o Pick(k + 1)
    IN  Pick(1)

\* The cells of a row in the columns of subset.
Cells(r, subset) == [c \in subset |-> r[c]]

\* DataFrame.drop_duplicates(subset): keep="first" is the default.
drop_duplicates(frame, subset) ==
    Loc(frame, [k \in 1..Len(frame) |->
                  \A j \in 1..(k - 1) :
                      Cells(frame[j], subset) # Cells(frame[k], subset)])

\* pandas.concat(frames, ignore_index=True)
RECURSIVE concat(_)
concat(frames) ==
    IF frames = <<>> THEN <<>> ELSE Head(frames) \o concat(Tail(frames))

\* The seven standardized columns.
Record(allele, peptide, value, inequality, type, source, original) ==
    [allele |-> allele, peptide |-> peptide, measurement_value |-> value,
     measurement_inequality |-> inequality, measurement_type |-> type,
     measurement_source |-> source, original_allele |-> original]

Columns ==
    {"allele", "peptide", "measurement_value", "measurement_inequality",
     "measurement_type", "measurement_source", "original_allele"}

TripleKey(r) == <<r.allele, r.peptide, r.measurement_value>>

(***************************************************************************)
(* curate.py, module level.                                                *)
(***************************************************************************)
\* mhcnames.normalize_allele_name: the names it parses, and what it returns
\* for them.  Any other name makes it raise.
mhcnames_parses(s) == s \in {"HLA-A*02:01", "HLA-A0201", "HLA-B*07:02"}

mhcnames_normalize_allele_name(s) ==
    CASE s = "HLA-A*02:01" -> "HLA-A*02:01"
      [] s = "HLA-A0201"   -> "HLA-A*02:01"
      [] s = "HLA-B*07:02" -> "HLA-B*07:02"

\* try: return mhcnames.normalize_allele_name(s)  except Exception: "UNKNOWN"
normalize_allele_name(s) ==
    IF mhcnames_parses(s) THEN mhcnames_normalize_allele_name(s) ELSE "UNKNOWN"

QUALITATIVE_TO_AFFINITY_AND_INEQUALITY ==
    [k \in {"Negative", "Positive", "Positive-High",
            "Positive-Intermediate", "Positive-Low"} |->
        CASE k = "Negative"              -> <<"5000.0", ">">>
          [] k = "Positive"              -> <<"500.0", "<">>
          [] k = "Positive-High"         -> <<"100.0", "<">>
          [] k = "Positive-Intermediate" -> <<"1000.0", "<">>
          [] k = "Positive-Low"          -> <<"5000.0", "<">>]

\* Series.map(dict): a key the dict lacks gives NaN.
QUALITATIVE_TO_AFFINITY(k) ==
    IF k \in DOMAIN QUALITATIVE_TO_AFFINITY_AND_INEQUALITY
    THEN QUALITATIVE_TO_AFFINITY_AND_INEQUALITY[k][1] ELSE NaN

QUALITATIVE_TO_INEQUALITY(k) ==
    IF k \in DOMAIN QUALITATIVE_TO_AFFINITY_AND_INEQUALITY
    THEN QUALITATIVE_TO_AFFINITY_AND_INEQUALITY[k][2] ELSE NaN

EXCLUDE_IEDB_ALLELES == {"HLA class I", "HLA class II"}

\* The default of load_data_systemhc_atlas's min_probability, in hundredths.
min_probability == 99

(***************************************************************************)
(* The loaders.  Each takes the rows of one file as read by pandas and     *)
(* returns a frame; only the seven standardized columns of it are read     *)
(* after the loader returns, so the frames carry just these.               *)
(***************************************************************************)
\* df.ix[df.allele != "UNKNOWN"], the same in the four loaders.
drop_unknown_alleles(frame) ==
    Loc(frame, [k \in 1..Len(frame) |-> frame[k].allele # "UNKNOWN"])

\* Lines 77-86 of load_data_kim2014: the standardized columns.
kim2014_columns(r) ==
    Record(normalize_allele_name(r.mhc), r.sequence, r.meas, r.inequality,
           IF r.inequality = "=" THEN "quantitative" ELSE "qualitative",
           "kim2014", r.mhc)

\* load_data_kim2014 without line 89: rows of unparsed alleles are kept.
load_data_kim2014_keeping_unknown(rows) ==
    [k \in 1..Len(rows) |-> kim2014_columns(rows[k])]

\* load_data_kim2014 with line 79 testing for ">" instead of "=".
load_data_kim2014_type_by_direction(rows) ==
    drop_unknown_alleles(
        [k \in 1..Len(rows) |->
            [kim2014_columns(rows[k]) EXCEPT !.measurement_type =
                IF rows[k].inequality # ">" THEN "quantitative" ELSE "qualitative"]])

load_data_kim2014(rows) ==
    drop_unknown_alleles([k \in 1..Len(rows) |-> kim2014_columns(rows[k])])

\* Lines 99-105 of load_data_systemhc_atlas; prob is kept for line 113.
systemhc_atlas_columns(r) ==
    [prob |-> r.prob] @@
    Record(normalize_allele_name(r.top_allele), r.search_hit,
           QUALITATIVE_TO_AFFINITY("Positive"), "<", "qualitative",
           "systemhc-atlas", r.top_allele)

\* df.loc[df.prob >= min_probability]
drop_improbable(frame) ==
    Loc(frame, [k \in 1..Len(frame) |-> frame[k].prob >= min_probability])

\* The seven standardized columns of each row.
standardized(frame) == [k \in 1..Len(frame) |-> Cells(frame[k], Columns)]

load_data_systemhc_atlas(rows) ==
    standardized(
        drop_duplicates(
            drop_improbable(
                drop_unknown_alleles(
                    [k \in 1..Len(rows) |-> systemhc_atlas_columns(rows[k])])),
            {"allele", "peptide"}))

\* Lines 127-132 of load_data_abelin_mass_spec.
abelin_columns(r) ==
    Record(normalize_allele_name(r.allele), r.peptide,
           QUALITATIVE_TO_AFFINITY("Positive"), "<", "qualitative",
           "abelin-mass-spec", r.allele)

load_data_abelin_mass_spec(rows) ==
    drop_duplicates(
        drop_unknown_alleles([k \in 1..Len(rows) |-> abelin_columns(rows[k])]),
        {"allele", "peptide"})

\* Lines 151-153 of load_data_iedb: only class I.
select_class_I(frame) ==
    Loc(frame, [k \in 1..Len(frame) |->
                  Upper(Strip(frame[k].MHC_allele_class)) = "I"])

\* Lines 157-163: the excluded names, then "mutant" and "CD1".
drop_unusable_alleles(frame) ==
    Loc(frame, [k \in 1..Len(frame) |->
                  /\ frame[k].Allele_Name \notin EXCLUDE_IEDB_ALLELES
                  /\ ~ Contains(frame[k].Allele_Name, "mutant")
                  /\ ~ Contains(frame[k].Allele_Name, "CD1")])

\* Line 165: iedb_df["allele"] = iedb_df["Allele Name"].map(normalize_allele_name)
with_allele(frame) ==
    [k \in 1..Len(frame) |->
        [allele |-> normalize_allele_name(frame[k].Allele_Name)] @@ frame[k]]

\* Lines 172-174: the rows in nM.
quantitative_rows(frame) ==
    LET quantitative == Loc(frame, [j \in 1..Len(frame) |-> frame[j].Units = "nM"])
    IN  [k \in 1..Len(quantitative) |->
            [measurement_type |-> "quantitative", measurement_inequality |-> "="]
            @@ quantitative[k]]

\* Lines 180-183: without the mass-spec rows, unless they are asked for.
drop_mass_spec(frame, include_mass_spec) ==
    IF ~ include_mass_spec
    THEN Loc(frame, [k \in 1..Len(frame) |->
                       ~ Contains(frame[k].Method_Technique, "mass spec")])
    ELSE frame

\* Lines 178 and 185-188: the type, and value and inequality from the table.
qualitative_columns(r) ==
    [measurement_type |-> "qualitative",
     Quantitative_measurement |-> QUALITATIVE_TO_AFFINITY(r.Qualitative_Measure),
     measurement_inequality |-> QUALITATIVE_TO_INEQUALITY(r.Qualitative_Measure)]
    @@ r

\* Lines 177-188: the rows not in nM.
qualitative_rows(frame, include_mass_spec) ==
    LET qualitative ==
            drop_mass_spec(
                Loc(frame, [j \in 1..Len(frame) |-> frame[j].Units # "nM"]),
                include_mass_spec)
    IN  [k \in 1..Len(qualitative) |-> qualitative_columns(qualitative[k])]

\* Lines 202-205: Description stripped, and only the valid peptides kept.
valid_peptides(frame) ==
    Loc([k \in 1..Len(frame) |->
            [Description |-> Strip(frame[k].Description)] @@ frame[k]],
        [k \in 1..Len(frame) |-> MatchesPeptide(Strip(frame[k].Description))])

\* x.split(";")[-1].split(",")[-1].split(" ")[-1].strip().replace("*", "")
last_author(x) ==
    Remove(Strip(SplitLast(SplitLast(SplitLast(x, ";"), ","), " ")), "*")

\* Lines 209-229: train_data, a row at a time.
train_data_columns(r) ==
    Record(r.allele, r.Description, r.Quantitative_measurement,
           r.measurement_inequality, r.measurement_type,
           last_author(r.Authors) \o " - " \o r.Method_Technique,
           r.Allele_Name)

\* Lines 193-230: both kinds of rows concatenated, filtered and made into
\* train_data without its duplicates.
make_train_data(quantitative, qualitative, include_qualitative) ==
    LET iedb_df ==
            valid_peptides(
                quantitative \o (IF include_qualitative THEN qualitative ELSE <<>>))
    IN  drop_duplicates(
            [k \in 1..Len(iedb_df) |-> train_data_columns(iedb_df[k])], Columns)

load_data_iedb(rows, include_qualitative, include_mass_spec) ==
    LET iedb_df ==
            drop_unknown_alleles(
                with_allele(drop_unusable_alleles(select_class_I(rows))))
    IN  make_train_data(quantitative_rows(iedb_df),
                        qualitative_rows(iedb_df, include_mass_spec),
                        include_qualitative)

(***************************************************************************)
(* run(): the steps between the loader calls and the write.                *)
(***************************************************************************)
\* df.allele + "_" + df.peptide: NaN wherever an operand is NaN.
allele_peptide(r) ==
    IF isnull(r.allele) \/ isnull(r.peptide) THEN NaN
    ELSE r.allele \o "_" \o r.peptide

\* if dfs: df = df.ix[~df.allele_peptide.isin(dfs[0].allele_peptide)]
drop_present_in_first(kim_df, frames) ==
    IF frames # <<>>
    THEN LET iedb_df == frames[1]
             present == {allele_peptide(iedb_df[k]) : k \in 1..Len(iedb_df)}
         IN  Loc(kim_df, [k \in 1..Len(kim_df) |->
                            allele_peptide(kim_df[k]) \notin present])
    ELSE kim_df

\* Line 267 with keep="last".
drop_combined_duplicates_keep_last(frame) ==
    Loc(frame, [k \in 1..Len(frame) |->
                  \A j \in (k + 1)..Len(frame) :
                      TripleKey(frame[j]) # TripleKey(frame[k])])

\* Line 267 without the subset: only rows equal in every column are dropped.
drop_combined_duplicates_full_row(frame) == drop_duplicates(frame, Columns)

\* df.drop_duplicates(["allele", "peptide", "measurement_value"])
drop_combined_duplicates(frame) ==
    drop_duplicates(frame, {"allele", "peptide", "measurement_value"})

\* One sort column: a < b, NaN after every string (na_position="last").
CellLess(a, b) ==
    IF isnull(a) THEN FALSE
    ELSE IF isnull(b) THEN TRUE
    ELSE StrLess(a, b)

\* r before q under sort_values(["allele", "peptide"]).
RowLess(r, q) ==
    \/ CellLess(r.allele, q.allele)
    \/ r.allele = q.allele /\ CellLess(r.peptide, q.peptide)

\* sort_values(["allele"]): the peptide column left out of the sort.
RECURSIVE sort_values_by_allele(_)
sort_values_by_allele(frame) ==
    IF frame = <<>> THEN <<>>
    ELSE LET r == frame[Len(frame)]
             sorted == sort_values_by_allele(SubSeq(frame, 1, Len(frame) - 1))
             n == Cardinality({k \in 1..Len(sorted) :
                                  ~ CellLess(r.allele, sorted[k].allele)})
         IN  SubSeq(sorted, 1, n) \o <<r>> \o SubSeq(sorted, n + 1, Len(sorted))

\* DataFrame.sort_values(["allele", "peptide"]): ascending; rows with equal
\* keys keep their order (pandas sorts several columns with a stable sort).
RECURSIVE sort_values(_)
sort_values(frame) ==
    IF frame = <<>> THEN <<>>
    ELSE LET r == frame[Len(frame)]
             sorted == sort_values(SubSeq(frame, 1, Len(frame) - 1))
             \* r goes after every row that is not greater than it
             n == Cardinality({k \in 1..Len(sorted) : ~ RowLess(r, sorted[k])})
         IN  SubSeq(sorted, 1, n) \o <<r>> \o SubSeq(sorted, n + 1, Len(sorted))

\* DataFrame.dropna(): drop the rows with a null in any column.
dropna(frame) ==
    Loc(frame, [k \in 1..Len(frame) |->
                  \A c \in DOMAIN frame[k] : ~ isnull(frame[k][c])])

\* Lines 263-278: concat, drop_duplicates, the seven columns, sort, dropna.
combine(frames) ==
    dropna(sort_values(drop_combined_duplicates(concat(frames))))

(***************************************************************************)
(* The inputs: the rows the input files are made of.                       *)
(***************************************************************************)
Kim(mhc, sequence, meas, inequality) ==
    [mhc |-> mhc, sequence |-> sequence, meas |-> meas, inequality |-> inequality]

KimRows ==
    { Kim("HLA-A*02:01", "SLLMWITQC", "12.3", "="),
      Kim("HLA-A*02:01", "SLLMWITQC", "45.6", ">"),
      Kim("HLA-A0201", "SLLMWITQC", "500.0", "<"),
      Kim("HLA-B*07:02", "RPPIFIRRL", "12.3", "="),
      Kim("HLA-A*02:01", "SLLMWITQX", "12.3", "="),
      Kim("BoLA-gb1", "SLLMWITQC", "12.3", "=") }

Atlas(top_allele, search_hit, prob) ==
    [top_allele |-> top_allele, search_hit |-> search_hit, prob |-> prob]

AtlasRows ==
    { Atlas("HLA-A*02:01", "SLLMWITQC", 100),
      Atlas("HLA-A0201", "SLLMWITQC", 99),
      Atlas("HLA-B*07:02", "RPPIFIRRL", 98),
      Atlas("HLA-A*02:01", "RPPIFIRRL", 99),
      Atlas("BoLA-gb1", "RPPIFIRRL", 100) }

Abelin(allele, peptide) == [allele |-> allele, peptide |-> peptide]

AbelinRows ==
    { Abelin("HLA-A*02:01", "SLLMWITQC"),
      Abelin("HLA-A0201", "SLLMWITQC"),
      Abelin("HLA-B*07:02", "RPPIFIRRL"),
      Abelin("BoLA-gb1", "RPPIFIRRL") }

Iedb(class, name, units, qualitative, quantitative, method, description) ==
    [MHC_allele_class |-> class, Allele_Name |-> name, Units |-> units,
     Qualitative_Measure |-> qualitative, Quantitative_measurement |-> quantitative,
     Method_Technique |-> method, Description |-> description,
     Authors |-> "J Sidney; A Sette*"]

Binding == "purified MHC/competitive/radioactivity"
Elution == "cellular MHC/mass spectrometry"

IedbRows ==
    { Iedb("I", "HLA-A*02:01", "nM", "Positive", "12.3", Binding, "SLLMWITQC"),
      Iedb("I", "HLA-A*02:01", NaN, "Positive-Weak", NaN, Binding, "SLLMWITQC"),
      Iedb("I", "HLA-A*02:01", NaN, "Positive", NaN, Elution, "SLLMWITQC"),
      Iedb("i ", "HLA-B*07:02", NaN, "Negative", NaN, Binding, " RPPIFIRRL"),
      Iedb("I", "HLA-B*07:02", "nM", "Positive", "12.3", Binding, "RPPIFIRRL + OX(M4)"),
      Iedb("II", "HLA-A*02:01", "nM", "Positive", "12.3", Binding, "SLLMWITQC"),
      Iedb("I", "HLA class I", NaN, "Positive", NaN, Binding, "SLLMWITQC"),
      Iedb("I", "HLA-A*02:01 K66A mutant", "nM", "Positive", "12.3", Binding, "SLLMWITQC"),
      Iedb("I", "CD1d", NaN, "Positive", NaN, Binding, "SLLMWITQC"),
      Iedb("I", "BoLA-gb1", "nM", "Positive", "12.3", Binding, "SLLMWITQC") }

\* The loops of run(), in order, named by the option whose files they read.
Loops == <<"data_iedb", "data_kim2014", "data_systemhc_atlas", "data_abelin_mass_spec">>

LoopNumber(option) == CHOOSE k \in 1..Len(Loops) : Loops[k] = option

Options == {"data_iedb", "data_kim2014", "data_systemhc_atlas", "data_abelin_mass_spec"}

RowsOf(option) ==
    CASE option = "data_iedb" -> IedbRows
      [] option = "data_kim2014" -> KimRows
      [] option = "data_systemhc_atlas" -> AtlasRows
      [] option = "data_abelin_mass_spec" -> AbelinRows

\* A line of the input: a row of a file of `option`, either of a new file
\* or of the file of the option's line before it; or a file that cannot be
\* read as the loader expects (missing, malformed, a column missing).
Lines ==
    UNION { [option : {o}, new_file : BOOLEAN, unreadable : {FALSE}, row : RowsOf(o)]
            \cup [option : {o}, new_file : {TRUE}, unreadable : {TRUE}, row : {<<>>}]
            : o \in Options }

\* The files of one option, in command-line order.
FilesOf(lines, o) ==
    LET mine == Loc(lines, [k \in 1..Len(lines) |-> lines[k].option = o])
        number == [k \in 0..Len(mine) |->
                      Cardinality({j \in 1..k : mine[j].new_file})]
    IN  [f \in 1..number[Len(mine)] |->
            LET its == Loc(mine, [k \in 1..Len(mine) |-> number[k] = f])
                readable == \A k \in 1..Len(its) : ~ its[k].unreadable
            IN  [readable |-> readable,
                 rows |-> IF readable THEN [k \in 1..Len(its) |-> its[k].row]
                          ELSE <<>>]]

\* parser.parse_args: the four file lists and the mass-spec flag.
ParsedArgs(lines, flag) ==
    [data_iedb |-> FilesOf(lines, "data_iedb"),
     data_kim2014 |-> FilesOf(lines, "data_kim2014"),
     data_systemhc_atlas |-> FilesOf(lines, "data_systemhc_atlas"),
     data_abelin_mass_spec |-> FilesOf(lines, "data_abelin_mass_spec"),
     include_iedb_mass_spec |-> flag]

\* The inputs of a run: at most MaxRows lines, the lines of an option
\* together, options in the order run() reads them, each option's first line
\* opening a file.
Inputs ==
    { lines \in UNION { [1..n -> Lines] : n \in 0..MaxRows } :
        \A k \in 1..Len(lines) :
            IF k > 1 /\ lines[k - 1].option = lines[k].option
            THEN TRUE
            ELSE /\ lines[k].new_file
                 /\ \A j \in 1..(k - 1) :
                        LoopNumber(lines[j].option) < LoopNumber(lines[k].option) }

(***************************************************************************)
(* run() as a state machine.  pc names the statement about to execute and  *)
(* fileno the file of the current loop; dfs, df and out_csv are run()'s    *)
(* list of frames, its final frame and the file it writes.                 *)
(***************************************************************************)
\* The first loop from number k on that has a file, else the merge.
RECURSIVE Enter(_, _)
Enter(a, k) ==
    IF k > Len(Loops) THEN "merge"
    ELSE IF Len(a[Loops[k]]) > 0 THEN Loops[k]
    ELSE Enter(a, k + 1)

Init ==
    /\ \E lines \in Inputs, flag \in BOOLEAN : args = ParsedArgs(lines, flag)
    /\ pc = Enter(args, 1)
    /\ fileno = 1
    /\ dfs = <<>>
    /\ df = <<>>
    /\ out_csv = [written |-> FALSE, rows |-> <<>>]

\* The loader returned and its frame was appended: on to the next file.
Continue(frame) ==
    /\ dfs' = Append(dfs, frame)
    /\ IF fileno < Len(args[pc])
       THEN pc' = pc /\ fileno' = fileno + 1
       ELSE pc' = Enter(args, LoopNumber(pc) + 1) /\ fileno' = 1
    /\ UNCHANGED <<args, df, out_csv>>

\* The exception of a loader caught and the file skipped.
RaiseSwallowed ==
    IF pc = "merge"
    THEN pc' = "raised" /\ UNCHANGED <<args, fileno, dfs, df, out_csv>>
    ELSE /\ IF fileno < Len(args[pc])
            THEN pc' = pc /\ fileno' = fileno + 1
            ELSE pc' = Enter(args, LoopNumber(pc) + 1) /\ fileno' = 1
         /\ UNCHANGED <<args, dfs, df, out_csv>>

\* An exception leaves run(): nothing after the raising statement executes.
Raise ==
    /\ pc' = "raised"
    /\ UNCHANGED <<args, fileno, dfs, df, out_csv>>

LoadIedb ==
    /\ pc = "data_iedb"
    /\ LET file == args.data_iedb[fileno]
       IN  IF file.readable
           THEN Continue(load_data_iedb(file.rows, TRUE, args.include_iedb_mass_spec))
           ELSE Raise

LoadKim2014 ==
    /\ pc = "data_kim2014"
    /\ LET file == args.data_kim2014[fileno]
       IN  IF file.readable
           THEN Continue(drop_present_in_first(load_data_kim2014(file.rows), dfs))
           ELSE Raise

LoadSystemhcAtlas ==
    /\ pc = "data_systemhc_atlas"
    /\ LET file == args.data_systemhc_atlas[fileno]
       IN  IF file.readable
           THEN Continue(load_data_systemhc_atlas(file.rows))
           ELSE Raise

LoadAbelinMassSpec ==
    /\ pc = "data_abelin_mass_spec"
    /\ LET file == args.data_abelin_mass_spec[fileno]
       IN  IF file.readable
           THEN Continue(load_data_abelin_mass_spec(file.rows))
           ELSE Raise

\* pandas.concat raises ValueError on an empty list of frames.
Combine ==
    /\ pc = "merge"
    /\ IF dfs = <<>>
       THEN Raise
       ELSE /\ df' = combine(dfs)
            /\ pc' = "to_csv"
            /\ UNCHANGED <<args, fileno, dfs, out_csv>>

ToCsv ==
    /\ pc = "to_csv"
    /\ out_csv' = [written |-> TRUE, rows |-> df]
    /\ pc' = "done"
    /\ UNCHANGED <<args, fileno, dfs, df>>

Next ==
    \/ LoadIedb
    \/ LoadKim2014
    \/ LoadSystemhcAtlas
    \/ LoadAbelinMassSpec
    \/ Combine
    \/ ToCsv

Spec == Init /\ [][Next]_vars

\* Runs given one more IEDB file, ahead of the others: of no row or of one.
FirstIedbFiles ==
    {[readable |-> TRUE, rows |-> <<>>]}
    \cup {[readable |-> TRUE, rows |-> <<r>>] : r \in IedbRows}

InitSeveralIedb ==
    /\ \E lines \in Inputs, flag \in BOOLEAN, first \in FirstIedbFiles :
          args = [ParsedArgs(lines, flag) EXCEPT !.data_iedb = <<first>> \o @]
    /\ pc = Enter(args, 1)
    /\ fileno = 1
    /\ dfs = <<>>
    /\ df = <<>>
    /\ out_csv = [written |-> FALSE, rows |-> <<>>]

SpecSeveralIedb == InitSeveralIedb /\ [][Next]_vars

(***************************************************************************)
(* What the claims speak of.                                               *)
(***************************************************************************)
Done == pc = "done"

Output == out_csv.rows

\* Every frame was appended: the loops are over.
Loaded == pc \in {"merge", "to_csv", "done"}

Combined == concat(dfs)

NumIedb == Len(args.data_iedb)

NumKim == Len(args.data_kim2014)

NumFiles ==
    Len(args.data_iedb) + Len(args.data_kim2014)
    + Len(args.data_systemhc_atlas) + Len(args.data_abelin_mass_spec)

\* The records the IEDB loader returned, over all the IEDB files.
IedbRecords ==
    UNION { {dfs[k][j] : j \in 1..Len(dfs[k])} : k \in 1..NumIedb }

\* The records the Kim2014 loader returns for Kim2014 file f.
KimLoaded(f) == load_data_kim2014(args.data_kim2014[f].rows)

\* The frame run() appended for Kim2014 file f.
KimAppended(f) == dfs[NumIedb + f]

RowsIn(frame) == {frame[k] : k \in 1..Len(frame)}

SameRecord(r, q) ==
    /\ r.allele = q.allele
    /\ r.peptide = q.peptide
    /\ r.measurement_value = q.measurement_value
    /\ r.measurement_inequality = q.measurement_inequality
    /\ r.measurement_type = q.measurement_type
    /\ r.measurement_source = q.measurement_source
    /\ r.original_allele = q.original_allele

\* The place of a record's loader in the concatenation order.
SourceRank(r) ==
    CASE r.measurement_source = "kim2014" -> 2
      [] r.measurement_source = "systemhc-atlas" -> 3
      [] r.measurement_source = "abelin-mass-spec" -> 4
      [] OTHER -> 1

SamePair(r, q) == r.allele = q.allele /\ r.peptide = q.peptide

\* (allele, peptide) of r is less than or equal to that of q, as str values.
PairLeq(r, q) ==
    \/ StrLess(r.allele, q.allele)
    \/ /\ r.allele = q.allele
       /\ (r.peptide = q.peptide \/ StrLess(r.peptide, q.peptide))

AllReadable ==
    \A o \in Options : \A f \in 1..Len(args[o]) : args[o][f].readable

(***************************************************************************)
(* The claims.                                                             *)
(***************************************************************************)
\* C1: every row of the final output table has a peptide made only of the
\* 20 canonical amino-acid letters, whichever loader the row came from.
C1_CanonicalPeptides ==
    \A k \in 1..Len(Output) : MatchesPeptide(Output[k].peptide)

\* C2: with one or several IEDB files given, the output has no kim2014 row
\* whose (allele, peptide) pair occurs among the records the IEDB loader
\* returned for any of the IEDB files.
C2_NoKimForIedbPair ==
    Done =>
        \A k \in 1..Len(Output) :
            Output[k].measurement_source = "kim2014" =>
                \A p \in IedbRecords : ~ SamePair(p, Output[k])

\* C3: whenever a Kim2014 record is removed by the cross-source suppression
\* because an IEDB loader record has its (allele, peptide) pair, the output
\* holds an IEDB record for that pair, with the IEDB measurement value.
C3_IedbValuePresent ==
    (Done /\ NumIedb > 0) =>
        \A f \in 1..NumKim : \A q \in RowsIn(KimLoaded(f)) :
            ( /\ q \notin RowsIn(KimAppended(f))
              /\ \E p \in IedbRecords : SamePair(p, q) )
            => \E p \in IedbRecords : \E k \in 1..Len(Output) :
                  SamePair(p, q) /\ SameRecord(Output[k], p)

\* C4: no two distinct rows of the final output table have the same
\* (allele, peptide, measurement_value) triple.
C4_NoDuplicateTriples ==
    \A i, j \in 1..Len(Output) :
        i # j => TripleKey(Output[i]) # TripleKey(Output[j])

\* C4 happens: two loaders returned records of one triple, and the written
\* output has that triple.
C4_Witness ==
    /\ Done
    /\ \E i, j \in 1..Len(Combined) :
          /\ i < j
          /\ TripleKey(Combined[i]) = TripleKey(Combined[j])
          /\ SourceRank(Combined[i]) # SourceRank(Combined[j])
          /\ Cardinality({k \in 1..Len(Output) :
                             TripleKey(Output[k]) = TripleKey(Combined[i])}) = 1

\* C5: the rows of the final output table are in ascending order of
\* (allele, peptide): each row's pair is less than or equal to the next's.
C5_SortedByAllelePeptide ==
    \A k \in 1..(Len(Output) - 1) : PairLeq(Output[k], Output[k + 1])

\* C5 happens: two records that were concatenated in descending order are
\* both in the written output.
C5_Witness ==
    /\ Done
    /\ \E i, j \in 1..Len(Combined) :
          /\ i < j
          /\ ~ PairLeq(Combined[i], Combined[j])
          /\ Combined[i] \in RowsIn(Output)
          /\ Combined[j] \in RowsIn(Output)

\* C6: no row of the final output table has allele "UNKNOWN": no frame a
\* loader returned has such a row, and the merger introduces none.
C6_NoUnknownAllele ==
    /\ \A f \in 1..Len(dfs) : \A k \in 1..Len(dfs[f]) : dfs[f][k].allele # "UNKNOWN"
    /\ \A k \in 1..Len(df) : df[k].allele # "UNKNOWN"
    /\ \A k \in 1..Len(Output) : Output[k].allele # "UNKNOWN"

\* C6 happens: a Kim2014 file had a row whose allele name does not parse,
\* and the output was written from the rows that remained.
C6_Witness ==
    /\ Done
    /\ Output # <<>>
    /\ \E f \in 1..NumKim : \E r \in RowsIn(args.data_kim2014[f].rows) :
          ~ mhcnames_parses(r.mhc)

\* C7: if a loader fails on any input file the writer is never invoked: the
\* output is written only after every loader returned for every given file
\* and the merger completed.
C7_NoOutputAfterFailure ==
    /\ pc = "raised" => ~ out_csv.written
    /\ out_csv.written =>
          /\ AllReadable
          /\ Len(dfs) = NumFiles
          /\ Done
          /\ Output = df

\* C7 happens: a loader returned a frame, then a later file could not be
\* read and the run ended.
C7_Witness ==
    /\ pc = "raised"
    /\ Len(dfs) >= 1
    /\ ~ AllReadable

\* C8: the frames are concatenated in the order IEDB, Kim2014,
\* SystemHC-Atlas, Abelin, and every output row is the earliest record of
\* its (allele, peptide, measurement_value) triple in that order.
C8_FirstOccurrenceWins ==
    /\ \A i, j \in 1..Len(Combined) :
          i < j => SourceRank(Combined[i]) <= SourceRank(Combined[j])
    /\ Done =>
          \A k \in 1..Len(Output) :
              \E i \in 1..Len(Combined) :
                  /\ SameRecord(Output[k], Combined[i])
                  /\ \A j \in 1..(i - 1) :
                        TripleKey(Combined[j]) # TripleKey(Output[k])

\* C8 happens: SystemHC-Atlas and Abelin both report a triple, and the
\* output row of that triple is the SystemHC-Atlas one.
C8_Witness ==
    /\ Done
    /\ \E k \in 1..Len(Output) : \E i \in 1..Len(Combined) :
          /\ Output[k].measurement_source = "systemhc-atlas"
          /\ Combined[i].measurement_source = "abelin-mass-spec"
          /\ TripleKey(Combined[i]) = TripleKey(Output[k])

\* C9: with no IEDB file given, no Kim2014 record is dropped by the
\* cross-filtering: the frame appended for every Kim2014 file is the frame
\* the Kim2014 loader returned for it.
C9_NoSuppressionWithoutIedb ==
    (Loaded /\ NumIedb = 0) =>
        \A f \in 1..NumKim : KimAppended(f) = KimLoaded(f)

\* C10: for every row of the final output table, measurement_type is
\* "quantitative" if and only if measurement_inequality is "=".
C10_TypeMatchesInequality ==
    \A k \in 1..Len(Output) :
        Output[k].measurement_type = "quantitative"
        <=> Output[k].measurement_inequality = "="

\* C10 happens: the output has a Kim2014 row of inequality "<", which is
\* qualitative, next to a quantitative row.
C10_Witness ==
    /\ Done
    /\ \E k \in 1..Len(Output) :
          /\ Output[k].measurement_source = "kim2014"
          /\ Output[k].measurement_inequality = "<"
    /\ \E k \in 1..Len(Output) : Output[k].measurement_type = "quantitative"

====
